---- MODULE Spec2Model ----
(***************************************************************************)
(* Coordinate-mapping core of python-bio-utils:                            *)
(*   alignment.reference_to_query   (CIGAR  -> reference-to-query table)   *)
(*   fast5.sequence_to_signal       (move table -> query-to-signal table)  *)
(*   fast5.normalize_mad            (median / MAD normalisation)           *)
(*   utils.build_reference_idx      (motif positions per contig)           *)
(* Each function is a call in progress: its arguments are chosen by Init,  *)
(* its locals are the variables, its statements are the actions.           *)
(***************************************************************************)
EXTENDS Integers, Sequences, FiniteSets

VARIABLES
    \* reference_to_query
    alignment,      \* the mappy.Alignment argument: cigar, strand, q_st, r_st, r_en
    fill,           \* what the np.empty buffer holds before it is written
    cigar_it,       \* the operations the for loop has not consumed yet
    rpos, qpos,     \* the two cursors
    ref_to_query,   \* the output buffer, indices 0..ref_len
    r2q_outcome,    \* "running" | "returned" | "TypeError" | "IndexError"
    \* sequence_to_signal
    move_table, raw_start_idx, block_stride, s2s_result,
    \* normalize_mad
    signal, scale_factor, mad_result,
    \* build_reference_idx
    records, motif, rel_idx, record_no, positions, idx_outcome

r2qVars == <<alignment, fill, cigar_it, rpos, qpos, ref_to_query, r2q_outcome>>
s2sVars == <<move_table, raw_start_idx, block_stride, s2s_result>>
madVars == <<signal, scale_factor, mad_result>>
idxVars == <<records, motif, rel_idx, record_no, positions, idx_outcome>>
vars == <<r2qVars, s2sVars, madVars, idxVars>>

\* A component no call is running in.
Idle == "idle"
R2QIdle == /\ alignment = Idle /\ fill = Idle /\ cigar_it = Idle /\ rpos = Idle
           /\ qpos = Idle /\ ref_to_query = Idle /\ r2q_outcome = Idle
S2SIdle == /\ move_table = Idle /\ raw_start_idx = Idle /\ block_stride = Idle
           /\ s2s_result = Idle
MadIdle == /\ signal = Idle /\ scale_factor = Idle /\ mad_result = Idle
IdxIdle == /\ records = Idle /\ motif = Idle /\ rel_idx = Idle /\ record_no = Idle
           /\ positions = Idle /\ idx_outcome = Idle

----------------------------------------------------------------------------
(* Generic helpers on sequences.                                           *)

Reverse(s) == [k \in 1..Len(s) |-> s[Len(s) + 1 - k]]

RECURSIVE SeqsUpTo(_, _)
\* all sequences over S of length 0..n
SeqsUpTo(S, n) ==
    IF n = 0 THEN {<<>>}
    ELSE LET shorter == SeqsUpTo(S, n - 1)
         IN  shorter \cup {Append(s, x) : s \in {t \in shorter : Len(t) = n - 1}, x \in S}

----------------------------------------------------------------------------
(* alignment.reference_to_query                                            *)

MaxCigarLen == 2      \* operations per CIGAR
MaxOpLen == 2         \* length of one operation
MaxQSt == 1           \* query start
MaxRSt == 0           \* reference start

\* mappy's numeric operation codes: 0 M, 1 I, 2 D, 4 S, 7 =, 8 X
OpCodes == {0, 1, 2, 4, 7, 8}
IsMatchOp(op) == op = 0 \/ op = 7 \/ op = 8
IsInsertionOp(op) == op = 1
IsDeletionOp(op) == op = 2

CigarOps == {<<l, op>> : l \in 1..MaxOpLen, op \in OpCodes}
Cigars == SeqsUpTo(CigarOps, MaxCigarLen)

RECURSIVE RefSpan(_)
\* reference bases a CIGAR consumes: its match, mismatch and deletion lengths
RefSpan(cigar) ==
    IF cigar = <<>> THEN 0
    ELSE (IF IsMatchOp(Head(cigar)[2]) \/ IsDeletionOp(Head(cigar)[2])
          THEN Head(cigar)[1] ELSE 0) + RefSpan(Tail(cigar))

\* The declared span r_en - r_st agrees with the CIGAR or is off by one.
SpanDeltas == {-1, 0, 1}
DeclaredEnds(c, r) == {r + RefSpan(c) + d : d \in {x \in SpanDeltas : RefSpan(c) + x >= 0}}

\* An np.empty buffer holds whatever the allocator left there: any uint32. The
\* model lets every unwritten entry read low or read high (the largest value TLC
\* represents); the query coordinates written stay far below the uint32 range.
FillValues == {0, 2147483647}

RefLen(a) == a.r_en - a.r_st

\* variant: the strand is ignored
CigarOrder_AlwaysForward(a) == a.cigar
CigarOrder(a) == IF a.strand = 1 THEN a.cigar ELSE Reverse(a.cigar)

\* The loop's locals as one record; the step operators below are the loop body.
R2QStart(a, f) ==
    [rpos |-> 0, qpos |-> a.q_st,
     ref_to_query |-> [p \in 0..RefLen(a) |-> f],
     outcome |-> "running"]

\* ref_to_query[rpos + i] = val[i] for i in range(l); numpy raises IndexError at
\* the first index past the buffer, the writes before it have happened.
WriteRun(st, l, val) ==
    [st EXCEPT
        !.ref_to_query = [p \in DOMAIN st.ref_to_query |->
                            IF p \in st.rpos..(st.rpos + l - 1)
                            THEN val[p - st.rpos]
                            ELSE st.ref_to_query[p]],
        !.outcome = IF st.rpos + l - 1 \in DOMAIN st.ref_to_query
                    THEN "running" ELSE "IndexError"]

MatchStep(st, l) ==
    LET val == [i \in 0..(l - 1) |-> st.qpos + i]
        w == WriteRun(st, l, val)
    IN  IF w.outcome = "running"
        THEN [w EXCEPT !.rpos = st.rpos + l, !.qpos = st.qpos + l]
        ELSE w

\* variant: an insertion leaves the query cursor where it is
InsertionStep_Frozen(st, l) == st
InsertionStep(st, l) == [st EXCEPT !.qpos = st.qpos + l]

\* variant: a deletion writes advancing query values, as a match does
DeletionStep_Counting(st, l) ==
    LET val == [i \in 0..(l - 1) |-> st.qpos + i]
        w == WriteRun(st, l, val)
    IN  IF w.outcome = "running" THEN [w EXCEPT !.rpos = st.rpos + l] ELSE w
DeletionStep(st, l) ==
    LET val == [i \in 0..(l - 1) |-> st.qpos]
        w == WriteRun(st, l, val)
    IN  IF w.outcome = "running" THEN [w EXCEPT !.rpos = st.rpos + l] ELSE w

InvalidStep(st) == [st EXCEPT !.outcome = "TypeError"]

ApplyOp(st, e) ==
    IF IsMatchOp(e[2]) THEN MatchStep(st, e[1])
    ELSE IF IsInsertionOp(e[2]) THEN InsertionStep(st, e[1])
    ELSE IF IsDeletionOp(e[2]) THEN DeletionStep(st, e[1])
    ELSE InvalidStep(st)

\* ref_to_query[rpos] = qpos; return ref_to_query
\* variant: the exclusive end is never written
AddLast_NoSentinel(st) ==
    IF st.rpos \in DOMAIN st.ref_to_query
    THEN [st EXCEPT !.outcome = "returned"]
    ELSE [st EXCEPT !.outcome = "IndexError"]
AddLast(st) ==
    IF st.rpos \in DOMAIN st.ref_to_query
    THEN [st EXCEPT !.ref_to_query[st.rpos] = st.qpos, !.outcome = "returned"]
    ELSE [st EXCEPT !.outcome = "IndexError"]

RECURSIVE ConsumeCigar(_, _)
\* the for loop, run to its end or to the first exception
ConsumeCigar(ops, st) ==
    IF st.outcome # "running" THEN st
    ELSE IF ops = <<>> THEN AddLast(st)
    ELSE ConsumeCigar(Tail(ops), ApplyOp(st, Head(ops)))

\* the whole call
reference_to_query(a, f) == ConsumeCigar(CigarOrder(a), R2QStart(a, f))

R2QLocals == [rpos |-> rpos, qpos |-> qpos, ref_to_query |-> ref_to_query,
              outcome |-> r2q_outcome]

R2QSet(st) ==
    /\ rpos' = st.rpos
    /\ qpos' = st.qpos
    /\ ref_to_query' = st.ref_to_query
    /\ r2q_outcome' = st.outcome

R2QInit ==
    /\ \E c \in Cigars, s \in {1, -1}, q \in 0..MaxQSt, r \in 0..MaxRSt :
         \E e \in DeclaredEnds(c, r) :
            alignment = [cigar |-> c, strand |-> s, q_st |-> q, r_st |-> r, r_en |-> e]
    /\ fill \in FillValues
    /\ cigar_it = CigarOrder(alignment)
    /\ rpos = R2QStart(alignment, fill).rpos
    /\ qpos = R2QStart(alignment, fill).qpos
    /\ ref_to_query = R2QStart(alignment, fill).ref_to_query
    /\ r2q_outcome = "running"
    /\ S2SIdle /\ MadIdle /\ IdxIdle

\* for l, op in cigar: one iteration, the branch chosen by op
LoopHead == r2q_outcome = "running" /\ cigar_it # <<>>
LoopFrame == /\ cigar_it' = Tail(cigar_it)
             /\ UNCHANGED <<alignment, fill, s2sVars, madVars, idxVars>>

MatchOp ==
    /\ LoopHead
    /\ IsMatchOp(Head(cigar_it)[2])
    /\ R2QSet(MatchStep(R2QLocals, Head(cigar_it)[1]))
    /\ LoopFrame

InsertionOp ==
    /\ LoopHead
    /\ ~IsMatchOp(Head(cigar_it)[2]) /\ IsInsertionOp(Head(cigar_it)[2])
    /\ R2QSet(InsertionStep(R2QLocals, Head(cigar_it)[1]))
    /\ LoopFrame

DeletionOp ==
    /\ LoopHead
    /\ ~IsMatchOp(Head(cigar_it)[2]) /\ ~IsInsertionOp(Head(cigar_it)[2])
    /\ IsDeletionOp(Head(cigar_it)[2])
    /\ R2QSet(DeletionStep(R2QLocals, Head(cigar_it)[1]))
    /\ LoopFrame

InvalidOp ==
    /\ LoopHead
    /\ ~IsMatchOp(Head(cigar_it)[2]) /\ ~IsInsertionOp(Head(cigar_it)[2])
    /\ ~IsDeletionOp(Head(cigar_it)[2])
    /\ R2QSet(InvalidStep(R2QLocals))
    /\ LoopFrame

AddLastAndReturn ==
    /\ r2q_outcome = "running"
    /\ cigar_it = <<>>
    /\ R2QSet(AddLast(R2QLocals))
    /\ UNCHANGED <<cigar_it, alignment, fill, s2sVars, madVars, idxVars>>

R2QNext == MatchOp \/ InsertionOp \/ DeletionOp \/ InvalidOp \/ AddLastAndReturn

SpecR2Q == R2QInit /\ [][R2QNext]_vars

----------------------------------------------------------------------------
(* Properties of reference_to_query.                                       *)

\* The operations in the order the loop consumed them.
Consumed == CigarOrder(alignment)
Returned == r2q_outcome = "returned"
R2QDone == r2q_outcome \in {"returned", "TypeError", "IndexError"}
OnlyMIDOps(c) == \A j \in 1..Len(c) :
                    IsMatchOp(c[j][2]) \/ IsInsertionOp(c[j][2]) \/ IsDeletionOp(c[j][2])
ConsumesRef(e) == IsMatchOp(e[2]) \/ IsDeletionOp(e[2])

\* reference position (table index) the cursor is at when operation j starts
RefBefore(ops, j) == RefSpan(SubSeq(ops, 1, j - 1))

RECURSIVE InsertedAt(_, _, _)
\* total length of the insertions among ops[1..j] consumed at table index R
InsertedAt(ops, j, R) ==
    IF j = 0 THEN 0
    ELSE (IF IsInsertionOp(ops[j][2]) /\ RefBefore(ops, j) = R THEN ops[j][1] ELSE 0)
         + InsertedAt(ops, j - 1, R)

\* the per-base advance of the reference position written last before operation j:
\* 1 when a match/mismatch wrote it, 0 when a deletion wrote it
PrevAdvance(ops, j) ==
    LET k == CHOOSE k \in 1..(j - 1) :
                /\ ConsumesRef(ops[k])
                /\ \A m \in (k + 1)..(j - 1) : ~ConsumesRef(ops[m])
    IN  IF IsMatchOp(ops[k][2]) THEN 1 ELSE 0

\* insertions that have a table entry before them
InsertionsAfterEntry(ops) ==
    {j \in 1..Len(ops) : IsInsertionOp(ops[j][2]) /\ RefBefore(ops, j) > 0}
Deletions(ops) == {j \in 1..Len(ops) : IsDeletionOp(ops[j][2])}
Jump(R) == ref_to_query[R] - ref_to_query[R - 1]

Thm_C3 ==
    R2QDone =>
        IF alignment.strand = 1
        THEN R2QLocals = ConsumeCigar(alignment.cigar, R2QStart(alignment, fill))
        ELSE R2QLocals = reference_to_query(
                            [alignment EXCEPT !.cigar = Reverse(alignment.cigar),
                                              !.strand = 1], fill)

\* a reverse-strand call whose table differs from what the given order would yield
Wit_C3 ==
    /\ Returned
    /\ alignment.strand = -1
    /\ ref_to_query # ConsumeCigar(alignment.cigar, R2QStart(alignment, fill)).ref_to_query

SpanAgrees == RefSpan(alignment.cigar) = RefLen(alignment)

\* C6 as stated: a CIGAR whose reference-consuming lengths disagree with the declared
\* span ends in a CigarSpanMismatch error.
CE_C6 ==
    (R2QDone /\ OnlyMIDOps(alignment.cigar) /\ ~SpanAgrees)
        => r2q_outcome = "CigarSpanMismatch"

\* C9: a CIGAR of match/mismatch/insertion/deletion operations whose reference
\* lengths sum to the declared span returns a table with span + 1 entries that is
\* non-decreasing from index 0 through the sentinel.
Thm_C9 ==
    (R2QDone /\ OnlyMIDOps(alignment.cigar) /\ SpanAgrees) =>
        /\ Returned
        /\ DOMAIN ref_to_query = 0..RefLen(alignment)
        /\ \A p \in 1..RefLen(alignment) : ref_to_query[p - 1] <= ref_to_query[p]

\* a returned table over a CIGAR holding an insertion and a deletion, reverse strand
Wit_C9 ==
    /\ Returned /\ SpanAgrees
    /\ alignment.strand = -1
    /\ \E j, k \in 1..Len(alignment.cigar) :
          IsInsertionOp(alignment.cigar[j][2]) /\ IsDeletionOp(alignment.cigar[k][2])

----------------------------------------------------------------------------
(* fast5.sequence_to_signal                                                *)

MaxMoveLen == 4       \* blocks in a move table
MaxRawStart == 2      \* raw start index
MaxStride == 3        \* block stride

MoveTables == SeqsUpTo({0, 1}, MaxMoveLen)

\* np.append(arr, v)
\* variant: the flag appended is 0
NpAppend_Zero(arr, v) == Append(arr, 0)
NpAppend(arr, v) == Append(arr, v)

RECURSIVE NonZero(_, _)
\* arr.nonzero()[0] for the blocks from 0-based index b on: the indices of the
\* non-zero entries, ascending
NonZero(arr, b) ==
    IF b >= Len(arr) THEN <<>>
    ELSE IF arr[b + 1] # 0 THEN <<b>> \o NonZero(arr, b + 1)
    ELSE NonZero(arr, b + 1)

sequence_to_signal(mt, start, stride) ==
    LET extended == NpAppend(mt, 1)
        blocks == NonZero(extended, 0)
    IN  [k \in 1..Len(blocks) |-> blocks[k] * stride + start]

S2SInit ==
    /\ move_table \in MoveTables
    /\ raw_start_idx \in -1..MaxRawStart
    /\ block_stride \in -1..MaxStride
    /\ s2s_result = [outcome |-> "running"]
    /\ R2QIdle /\ MadIdle /\ IdxIdle

SequenceToSignal ==
    /\ s2s_result.outcome = "running"
    /\ s2s_result' = [outcome |-> "returned",
                      value |-> sequence_to_signal(move_table, raw_start_idx, block_stride)]
    /\ UNCHANGED <<move_table, raw_start_idx, block_stride, r2qVars, madVars, idxVars>>

S2SNext == SequenceToSignal

SpecS2S == S2SInit /\ [][S2SNext]_vars

S2SDone == s2s_result.outcome # "running"
OneBlocks == {b \in 0..(Len(move_table) - 1) : move_table[b + 1] = 1}

\* C5: with a non-negative raw start and a positive stride the output has one entry
\* per 1-flag plus one, holds blockIndex * stride + start for exactly the blocks
\* flagged 1 and the sentinel len(move_table) * stride + start, and is strictly
\* increasing (so the entries come in ascending block order, sentinel last).
Thm_C5 ==
    (S2SDone /\ raw_start_idx >= 0 /\ block_stride > 0) =>
        LET out == s2s_result.value
        IN  /\ s2s_result.outcome = "returned"
            /\ Len(out) = Cardinality(OneBlocks) + 1
            /\ {out[k] : k \in 1..Len(out)} =
                   {b * block_stride + raw_start_idx : b \in OneBlocks}
                   \cup {Len(move_table) * block_stride + raw_start_idx}
            /\ out[Len(out)] = Len(move_table) * block_stride + raw_start_idx
            /\ \A k \in 1..(Len(out) - 1) : out[k] < out[k + 1]

\* the move table [0,1,0,1] mapped with a positive stride and a non-zero start
Wit_C5 ==
    /\ S2SDone
    /\ move_table = <<0, 1, 0, 1>> /\ raw_start_idx = 2 /\ block_stride = 3
    /\ s2s_result.value = <<5, 11, 14>>

\* C7 as stated: a stride <= 0 or a negative raw start ends in an
\* InvalidMappingParameters error.
CE_C7 ==
    (S2SDone /\ (block_stride <= 0 \/ raw_start_idx < 0))
        => s2s_result.outcome = "InvalidMappingParameters"

----------------------------------------------------------------------------
(* fast5.normalize_mad                                                     *)
(* Samples are integers; a median is a multiple of 1/2 and the MAD a       *)
(* multiple of 1/4, so the model carries 2 * median and 4 * MAD. A quotient *)
(* is the exact fraction <<numerator, denominator>> of the float result, or *)
(* the IEEE-754 value a float division by zero yields.                     *)

MaxSignalLen == 3     \* samples in a signal
MaxSample == 7        \* largest raw sample

Signals == SeqsUpTo(0..MaxSample, MaxSignalLen)

\* the default scale factor 1.4826, as the fraction 14826 / 10000
DefaultScaleNum == 14826
DefaultScaleDen == 10000
None == "None"
ScaleFactors == {None, <<DefaultScaleNum, DefaultScaleDen>>}

Abs(x) == IF x < 0 THEN -x ELSE x

RECURSIVE Insert(_, _)
Insert(sorted, x) ==
    IF sorted = <<>> THEN <<x>>
    ELSE IF x <= Head(sorted) THEN <<x>> \o sorted
    ELSE <<Head(sorted)>> \o Insert(Tail(sorted), x)

RECURSIVE Sorted(_)
Sorted(s) == IF s = <<>> THEN <<>> ELSE Insert(Sorted(Tail(s)), Head(s))

\* 2 * np.median(s): the middle element, or the mean of the two middle elements;
\* nan for an empty array
TwiceMedian(s) ==
    IF s = <<>> THEN "nan"
    ELSE LET srt == Sorted(s)
             n == Len(s)
         IN  IF n % 2 = 1 THEN 2 * srt[(n + 1) \div 2]
             ELSE srt[n \div 2] + srt[n \div 2 + 1]

\* x / y for floats given as fractions xn/xd and yn/yd (xd, yd > 0): numpy warns
\* and yields nan, inf or -inf when y is zero
FloatDivide(xn, xd, yn, yd) ==
    IF yn = 0 THEN (IF xn = 0 THEN "nan" ELSE IF xn > 0 THEN "inf" ELSE "-inf")
    ELSE IF yn > 0 THEN <<xn * yd, xd * yn>>
    ELSE <<-(xn * yd), -(xd * yn)>>

\* med = np.median(signal); shifted = signal - med        (twice, as integers)
TwiceShifted(sig) == [k \in 1..Len(sig) |-> 2 * sig[k] - TwiceMedian(sig)]
\* mad = np.median(np.abs(shifted))                       (four times, as an integer)
FourMad(sig) ==
    LET shifted == TwiceShifted(sig)
    IN  TwiceMedian([k \in 1..Len(sig) |-> Abs(shifted[k])])
\* shifted / (scale_factor * mad): shifted = s2/2, scale_factor = sf[1]/sf[2],
\* mad = m4/4
normalize_mad(sig, sf) ==
    LET shifted == TwiceShifted(sig)
        mad4 == FourMad(sig)
    IN  [k \in 1..Len(sig) |->
            FloatDivide(shifted[k], 2, sf[1] * mad4, sf[2] * 4)]

MadInit ==
    /\ signal \in Signals
    /\ scale_factor \in ScaleFactors
    /\ mad_result = [outcome |-> "running"]
    /\ R2QIdle /\ S2SIdle /\ IdxIdle

\* if scale_factor is None: scale_factor = 1
ScaleFactorNone ==
    /\ mad_result.outcome = "running"
    /\ scale_factor = None
    /\ scale_factor' = <<1, 1>>
    /\ UNCHANGED <<signal, mad_result, r2qVars, s2sVars, idxVars>>

NormalizeMad ==
    /\ mad_result.outcome = "running"
    /\ scale_factor # None
    /\ mad_result' = [outcome |-> "returned", value |-> normalize_mad(signal, scale_factor)]
    /\ UNCHANGED <<signal, scale_factor, r2qVars, s2sVars, idxVars>>

MadNext == ScaleFactorNone \/ NormalizeMad

SpecMad == MadInit /\ [][MadNext]_vars

MadDone == mad_result.outcome # "running"

\* C8 as stated: a signal whose median absolute deviation is 0 ends in a
\* DegenerateSignal error, no result sequence is returned.
CE_C8 ==
    (MadDone /\ signal # <<>> /\ FourMad(signal) = 0)
        => mad_result.outcome = "DegenerateSignal"

----------------------------------------------------------------------------
(* utils.build_reference_idx                                               *)

MaxFileLen == 3       \* bases in the FASTA file, all contigs together
MaxMotifLen == 2      \* characters in the motif

Bases == {"A", "C", "G", "T"}
\* a motif is a literal pattern; it may be written in lower case
MotifChars == Bases \cup {"a"}
Motifs == SeqsUpTo(MotifChars, MaxMotifLen) \ {<<>>}

\* contigs of a file: the non-empty pieces a base string is cut into
RECURSIVE Cuts(_)
Cuts(str) ==
    IF str = <<>> THEN {<<>>}
    ELSE UNION {{<<SubSeq(str, 1, n)>> \o rest : rest \in Cuts(SubSeq(str, n + 1, Len(str)))} :
                n \in 1..Len(str)}
Files == UNION {Cuts(str) : str \in SeqsUpTo(Bases, MaxFileLen) \ {<<>>}}

\* record.name of the k-th record: FASTA names are unique keys
ContigName(k) == <<"ctg", k>>

\* re.I: both sides are folded to one case
Upper(ch) ==
    CASE ch = "a" -> "A" [] ch = "c" -> "C" [] ch = "g" -> "G" [] ch = "t" -> "T"
      [] OTHER -> ch

\* Bio.Seq complement, case preserved
Complement(ch) ==
    CASE ch = "A" -> "T" [] ch = "T" -> "A" [] ch = "C" -> "G" [] ch = "G" -> "C"
      [] ch = "a" -> "t" [] ch = "t" -> "a" [] ch = "c" -> "g" [] ch = "g" -> "c"
      [] OTHER -> ch

\* record.seq.reverse_complement()
ReverseComplement(seq) == [k \in 1..Len(seq) |-> Complement(seq[Len(seq) + 1 - k])]

\* the pattern matches the text at 0-based offset s
MatchesAt(pattern, text, s) ==
    /\ s >= 0
    /\ s + Len(pattern) <= Len(text)
    /\ \A k \in 1..Len(pattern) : Upper(text[s + k]) = Upper(pattern[k])

RECURSIVE FindIter(_, _, _)
\* [m.start() for m in re.finditer(pattern, text, re.I)] from offset pos on: the
\* scan resumes at the end of a match, one character on where nothing matches
FindIter(pattern, text, pos) ==
    IF pos + Len(pattern) > Len(text) THEN <<>>
    ELSE IF MatchesAt(pattern, text, pos)
         THEN <<pos>> \o FindIter(pattern, text, pos + Len(pattern))
         ELSE FindIter(pattern, text, pos + 1)

SeqToSet(s) == {s[k] : k \in 1..Len(s)}

\* variant: the mirrored coordinate counted from 1
pos_for_rev_FromOne(length, rel, i) == length - (i + rel)
pos_for_rev(length, rel, i) == length - (i + rel) - 1

fwd_pos(seq, m, rel) == {st + rel : st \in SeqToSet(FindIter(m, seq, 0))}
rev_pos(seq, m, rel) ==
    {pos_for_rev(Len(seq), rel, st) : st \in SeqToSet(FindIter(m, ReverseComplement(seq), 0))}

IdxInit ==
    /\ records \in Files
    /\ motif \in Motifs
    /\ rel_idx \in 0..(MaxMotifLen - 1)
    /\ rel_idx < Len(motif)
    /\ record_no = 0
    /\ positions = <<>>
    /\ idx_outcome = "running"
    /\ R2QIdle /\ S2SIdle /\ MadIdle

\* one iteration of: for record in SeqIO.parse(path, 'fasta')
IndexRecord ==
    /\ idx_outcome = "running"
    /\ record_no < Len(records)
    /\ record_no' = record_no + 1
    /\ LET seq == records[record_no + 1]
           contig == ContigName(record_no + 1)
       IN  positions' = [c \in DOMAIN positions \cup {contig} |->
                            IF c = contig
                            THEN <<fwd_pos(seq, motif, rel_idx), rev_pos(seq, motif, rel_idx)>>
                            ELSE positions[c]]
    /\ UNCHANGED <<records, motif, rel_idx, idx_outcome, r2qVars, s2sVars, madVars>>

ReturnPositions ==
    /\ idx_outcome = "running"
    /\ record_no = Len(records)
    /\ idx_outcome' = "returned"
    /\ UNCHANGED <<records, motif, rel_idx, record_no, positions, r2qVars, s2sVars, madVars>>

IdxNext == IndexRecord \/ ReturnPositions

SpecIdx == IdxInit /\ [][IdxNext]_vars

\* the contigs indexed so far, by record number
Indexed == 1..record_no
MatchStarts(text) == {st \in 0..Len(text) : MatchesAt(motif, text, st)}

\* C4 as stated: the forward set holds matchStart + rel_idx for every position at
\* which the motif matches the sequence, overlapping occurrences included, and the
\* reverse set likewise for every match position of the reverse complement.
CE_C4 ==
    \A k \in Indexed :
        LET seq == records[k]
            rc == ReverseComplement(seq)
        IN  /\ \A st \in MatchStarts(seq) : st + rel_idx \in positions[ContigName(k)][1]
            /\ \A st \in MatchStarts(rc) :
                   Len(seq) - (st + rel_idx) - 1 \in positions[ContigName(k)][2]

\* C10: the reverse set of a contig of length L is exactly the positions
\* L - (matchStart + rel_idx) - 1 of the matches found in the reverse complement;
\* each is a forward coordinate 0..L-1 whose forward base is the complement of the
\* reverse-complement base at matchStart + rel_idx.
Thm_C10 ==
    \A k \in Indexed :
        LET seq == records[k]
            L == Len(seq)
            rc == ReverseComplement(seq)
            found == SeqToSet(FindIter(motif, rc, 0))
            rev == positions[ContigName(k)][2]
        IN  /\ rev = {L - (st + rel_idx) - 1 : st \in found}
            /\ \A st \in found :
                   LET p == L - (st + rel_idx) - 1
                   IN  /\ p \in 0..(L - 1)
                       /\ MatchesAt(motif, rc, st)
                       /\ seq[p + 1] = Complement(rc[st + rel_idx + 1])
                       /\ Upper(seq[p + 1]) = Complement(Upper(motif[rel_idx + 1]))

\* a returned index with a contig whose non-empty reverse set differs from its
\* forward set
Wit_C10 ==
    /\ idx_outcome = "returned"
    /\ \E k \in Indexed :
          /\ positions[ContigName(k)][2] # {}
          /\ positions[ContigName(k)][1] # {}
          /\ positions[ContigName(k)][2] # positions[ContigName(k)][1]

====
